---- MODULE Spec2Model ----
(***************************************************************************)
(* Model of src/BarcodeReader.cpp: the WASM binding layer that turns a     *)
(* compressed image or an RGBA pixmap into a vector of ReadResult records  *)
(* by calling the ZXing engine once.  The image codec (stb_image), the     *)
(* format-name parser and the decode engine are external collaborators;    *)
(* their behaviour in one call is an input of that call.                   *)
(***************************************************************************)
EXTENDS Integers, Sequences, FiniteSets, TLC

VARIABLES
    tls,        \* thread-local storage of the module: the cached Uint8Array handle (line 49)
    inits,      \* how many times the cached handle has been initialised so far
    call,       \* the entry-point call that returned last: its arguments and the collaborators' behaviour
    ret,        \* what that call returned to the host, as the bound value objects (lines 112-128)
    engineLog,  \* the (image view, options) pairs handed to ReadBarcodes during that call
    escaped,    \* TRUE iff an exception left the entry point instead of a return value
    failedBefore \* history: some call before the last one ended in a whole-request failure

vars == <<tls, inits, call, ret, engineLog, escaped, failedBefore>>

\* ---------------------------------------------------------------- bounds
\* Largest maxSymbols argument a caller passes.
MaxSymbolsArg == 2
\* Largest number of symbols the engine locates in one image.
MaxFound == 2
\* The initialisation counter stops counting here.
MaxInits == 2

\* ------------------------------------------------- values of the engine
\* BarcodeFormat enumerators the format table knows, and their names.
QRCode == "BarcodeFormat::QRCode"
EAN13 == "BarcodeFormat::EAN13"

FormatTable == [n \in {"QRCode", "EAN-13"} |-> IF n = "QRCode" THEN QRCode ELSE EAN13]

\* ToString(BarcodeFormat), line 54: enumerator -> canonical name.
FormatToString(f) == CHOOSE n \in DOMAIN FormatTable : FormatTable[n] = f

\* ToString(Error), line 57: the empty string for "no error".
ErrorToString(e) ==
    CASE e = "Error::None" -> ""
      [] e = "Error::Checksum" -> "ChecksumError"
      [] e = "Error::Format" -> "FormatError"

Point(x, y) == [x |-> x, y |-> y]

\* Position{}: four zero points.
ZeroPosition == <<Point(0, 0), Point(0, 0), Point(0, 0), Point(0, 0)>>

\* Symbols the engine can locate (ZXing::Barcode objects).
SymA == [format |-> QRCode, text |-> "HELLO", bytes |-> <<1, 2, 3>>,
         error |-> "Error::None",
         position |-> <<Point(1, 2), Point(7, 3), Point(8, 9), Point(2, 8)>>,
         symbologyIdentifier |-> "]Q1"]
SymB == [format |-> EAN13, text |-> "", bytes |-> <<>>,
         error |-> "Error::Checksum",
         position |-> <<Point(4, 4), Point(6, 4), Point(6, 5), Point(4, 5)>>,
         symbologyIdentifier |-> "]E0"]
Symbols == {SymA, SymB}

RECURSIVE SeqsUpTo(_, _)
SeqsUpTo(S, n) ==
    IF n = 0 THEN {<<>>}
    ELSE LET shorter == SeqsUpTo(S, n - 1)
         IN shorter \cup {Append(s, x) : s \in {t \in shorter : Len(t) = n - 1}, x \in S}

\* What the engine does when it is called: return what it found, throw an
\* exception derived from std::exception with message what, or throw
\* something else.
Messages == {"", "out of memory"}
EngineBehaviours ==
    [kind : {"ok"}, what : {""}, found : SeqsUpTo(Symbols, MaxFound)]
    \cup [kind : {"std::exception"}, what : Messages, found : {<<SymA>>}]
    \cup [kind : {"other"}, what : {""}, found : {<<SymA>>}]

\* Format-filter strings, as the list of names between the commas.
FormatFilters == {<<>>, <<"QRCode">>, <<"EAN-13", "NotARealFormat">>}

\* Compressed-image buffers: empty, garbage, a decodable image.
Buffers == {[bufferLength |-> 0, decodable |-> FALSE],
            [bufferLength |-> 5, decodable |-> FALSE],
            [bufferLength |-> 5, decodable |-> TRUE]}

\* The engine behaviours drawn with a buffer: the codec decides before the
\* engine is consulted, so for a buffer it rejects two behaviours stand for
\* all, one that would return a symbol and one that would throw.
EngineBehavioursFor(buf) ==
    IF buf.bufferLength = 0 \/ ~buf.decodable
    THEN {[kind |-> "ok", what |-> "", found |-> <<SymA>>],
          [kind |-> "other", what |-> "", found |-> <<SymA>>]}
    ELSE EngineBehaviours

\* ------------------------------------------------------- value objects
\* emscripten::val: undefined when default-constructed, else a Uint8Array.
UndefinedVal == [type |-> "undefined", data |-> <<>>]

\* struct ReadResult, lines 21-29, aggregate-initialised from its first
\* four members; the remaining members take their default initialisers.
MakeReadResult(format, text, bytes, error, position, symbologyIdentifier) ==
    [format |-> format, text |-> text, bytes |-> bytes, error |-> error,
     position |-> position, symbologyIdentifier |-> symbologyIdentifier]

\* {"", "", {}, msg} of lines 65, 67 and 80.
FailureResult(msg) == MakeReadResult("", "", UndefinedVal, msg, ZeroPosition, "")

\* ReadResult{} as FirstOrDefault value-initialises it.
DefaultResult == MakeReadResult("", "", UndefinedVal, "", ZeroPosition, "")

\* value_object<ReadResult> and value_object<Position>, lines 112-126: the
\* record the host receives.
ToWire(r) ==
    [format |-> r.format, text |-> r.text, bytes |-> r.bytes, error |-> r.error,
     position |-> [topLeft |-> r.position[1], topRight |-> r.position[2],
                   bottomRight |-> r.position[3], bottomLeft |-> r.position[4]],
     symbologyIdentifier |-> r.symbologyIdentifier]

WireSeq(rs) == [i \in 1..Len(rs) |-> ToWire(rs[i])]

\* ------------------------------------------------------- collaborators
\* stbi_load_from_memory(..., 1), line 77: a null pointer for an empty or
\* undecodable buffer, else a one-channel pixel buffer.
stbi_load_from_memory(buf) ==
    IF buf.bufferLength = 0 \/ ~buf.decodable THEN "nullptr" ELSE "pixels"

\* BarcodeFormatsFromString, line 40: the set of the named formats (empty
\* for the empty string); std::invalid_argument for an unknown name.
BarcodeFormatsFromString(format) ==
    IF \E i \in 1..Len(format) : format[i] \notin DOMAIN FormatTable
    THEN [thrown |-> "std::exception", what |-> "This is not a valid barcode format",
          formats |-> {}]
    ELSE [thrown |-> "none", what |-> "",
          formats |-> {FormatTable[format[i]] : i \in 1..Len(format)}]

RECURSIVE SelectFormats(_, _)
SelectFormats(found, formats) ==
    IF found = <<>> THEN <<>>
    ELSE LET rest == SelectFormats(Tail(found), formats)
         IN IF formats = {} \/ Head(found).format \in formats
            THEN <<Head(found)>> \o rest ELSE rest

Min(a, b) == IF a < b THEN a ELSE b

\* ReadBarcodes(iv, opts), line 44: the engine.  It returns the located
\* symbols of the requested formats (no formats = all), at most
\* maxNumberOfSymbols of them, or throws.
ReadBarcodes(iv, opts, engine) ==
    IF engine.kind = "ok"
    THEN LET sel == SelectFormats(engine.found, opts.formats)
         IN [thrown |-> "none", what |-> "",
             barcodes |-> SubSeq(sel, 1, Min(Len(sel), opts.maxNumberOfSymbols))]
    ELSE [thrown |-> engine.kind, what |-> engine.what, barcodes |-> <<>>]

\* FirstOrDefault(vector), lines 90 and 104.
FirstOrDefault(results) == IF results = <<>> THEN DefaultResult ELSE results[1]

\* ------------------------------------------------------------ the code
\* Variant: line 38 is missing, tryInvert keeps being off.
ReaderOptions_NoTryInvert(tryHarder, formats, maxSymbols) ==
    [tryHarder |-> tryHarder, tryRotate |-> tryHarder, tryInvert |-> FALSE,
     tryDownscale |-> tryHarder, formats |-> formats,
     maxNumberOfSymbols |-> maxSymbols]

\* Lines 35-41 without the format set: the options object.
ReaderOptions(tryHarder, formats, maxSymbols) ==
    [tryHarder |-> tryHarder, tryRotate |-> tryHarder, tryInvert |-> tryHarder,
     tryDownscale |-> tryHarder, formats |-> formats,
     maxNumberOfSymbols |-> maxSymbols]

\* Variant: the handle is fetched again on every pass through line 49.
InitUint8Array_EveryCall(t) ==
    [Uint8Array |-> "global:Uint8Array", inits |-> 1]

\* Line 49: thread_local const val Uint8Array, initialised the first time
\* control passes through its declaration.
InitUint8Array(t) ==
    IF t.Uint8Array = "uninitialized"
    THEN [Uint8Array |-> "global:Uint8Array", inits |-> 1]
    ELSE [Uint8Array |-> t.Uint8Array, inits |-> 0]

\* Line 56: Uint8Array.new_(typed_memory_view(size, data)) copies the bytes.
NewUint8Array(handle, bytes) ==
    IF handle = "global:Uint8Array"
    THEN [type |-> "Uint8Array", data |-> [i \in 1..Len(bytes) |-> bytes[i]]]
    ELSE UndefinedVal

\* Variant: text and symbologyIdentifier change places in the initialiser list.
Marshal_SwapsStrings(handle, barcode) ==
    MakeReadResult(FormatToString(barcode.format), barcode.symbologyIdentifier,
                   NewUint8Array(handle, barcode.bytes),
                   ErrorToString(barcode.error), barcode.position,
                   barcode.text)

\* Lines 52-60: one barcode to one ReadResult.
Marshal(handle, barcode) ==
    MakeReadResult(FormatToString(barcode.format), barcode.text,
                   NewUint8Array(handle, barcode.bytes),
                   ErrorToString(barcode.error), barcode.position,
                   barcode.symbologyIdentifier)

\* Variant: an empty engine result is reported as a failure record.
MarshalAll_EmptyIsFailure(handle, barcodes) ==
    IF barcodes = <<>> THEN <<FailureResult("No barcode found")>>
    ELSE [i \in 1..Len(barcodes) |-> Marshal(handle, barcodes[i])]

\* Lines 46-63: the vector of the marshalled barcodes, in the engine's order.
MarshalAll(handle, barcodes) ==
    [i \in 1..Len(barcodes) |-> Marshal(handle, barcodes[i])]

\* Variant: the catch (...) handler of line 66 is missing.
CatchHandlers_NoCatchAll(thrown, what) ==
    IF thrown = "std::exception"
    THEN [results |-> <<FailureResult(what)>>, escaped |-> FALSE]
    ELSE [results |-> <<>>, escaped |-> TRUE]

\* Variant: both handlers report the generic message.
CatchHandlers_GenericMessage(thrown, what) ==
    [results |-> <<FailureResult("Unknown error")>>, escaped |-> FALSE]

\* Lines 64-68: the two handlers of the try block; between them they catch
\* everything, so nothing leaves the function as an exception.
CatchHandlers(thrown, what) ==
    IF thrown = "std::exception"
    THEN [results |-> <<FailureResult(what)>>, escaped |-> FALSE]
    ELSE [results |-> <<FailureResult("Unknown error")>>, escaped |-> FALSE]

\* What a call gives back: the returned vector, the thread-local storage it
\* leaves, how many times it initialised the cached handle, the engine
\* invocations it made, and whether it ended in an exception.
Outcome(results, t, n, log, esc) ==
    [results |-> results, tls |-> t, inits |-> n, engineLog |-> log, escaped |-> esc]

\* Variant: the format string is parsed after the engine has run.
readBarcodes_ParseAfterDecode(t, iv, tryHarder, format, maxSymbols, engine) ==
    LET parsed == BarcodeFormatsFromString(format)
        opts == ReaderOptions(tryHarder, {}, maxSymbols)
        got == ReadBarcodes(iv, opts, engine)
        cached == InitUint8Array(t)
        caughtParse == CatchHandlers(parsed.thrown, parsed.what)
        caughtRead == CatchHandlers(got.thrown, got.what)
    IN IF got.thrown # "none"
       THEN Outcome(caughtRead.results, t, 0, <<[iv |-> iv, opts |-> opts]>>,
                    caughtRead.escaped)
       ELSE IF parsed.thrown # "none"
       THEN Outcome(caughtParse.results, t, 0, <<[iv |-> iv, opts |-> opts]>>,
                    caughtParse.escaped)
       ELSE Outcome(MarshalAll(cached.Uint8Array, got.barcodes),
                    [Uint8Array |-> cached.Uint8Array], cached.inits,
                    <<[iv |-> iv, opts |-> opts]>>, FALSE)

\* readBarcodes, lines 32-70.  t is the thread-local storage on entry.
readBarcodes(t, iv, tryHarder, format, maxSymbols, engine) ==
    LET parsed == BarcodeFormatsFromString(format)
        opts == ReaderOptions(tryHarder, parsed.formats, maxSymbols)
        got == ReadBarcodes(iv, opts, engine)
        cached == InitUint8Array(t)
        caughtParse == CatchHandlers(parsed.thrown, parsed.what)
        caughtRead == CatchHandlers(got.thrown, got.what)
    IN IF parsed.thrown # "none"
       THEN Outcome(caughtParse.results, t, 0, <<>>, caughtParse.escaped)
       ELSE IF got.thrown # "none"
       THEN Outcome(caughtRead.results, t, 0, <<[iv |-> iv, opts |-> opts]>>,
                    caughtRead.escaped)
       ELSE Outcome(MarshalAll(cached.Uint8Array, got.barcodes),
                    [Uint8Array |-> cached.Uint8Array], cached.inits,
                    <<[iv |-> iv, opts |-> opts]>>, FALSE)

\* Variant: the null check of line 79 returns an empty vector.
readBarcodesFromImage_EmptyOnLoadError(t, buf, tryHarder, format, maxSymbols, engine) ==
    IF stbi_load_from_memory(buf) = "nullptr"
    THEN Outcome(<<>>, t, 0, <<>>, FALSE)
    ELSE readBarcodes(t, [format |-> "ImageFormat::Lum"], tryHarder, format,
                      maxSymbols, engine)

\* readBarcodesFromImage, lines 73-84.
readBarcodesFromImage(t, buf, tryHarder, format, maxSymbols, engine) ==
    IF stbi_load_from_memory(buf) = "nullptr"
    THEN Outcome(<<FailureResult("Error loading image")>>, t, 0, <<>>, FALSE)
    ELSE readBarcodes(t, [format |-> "ImageFormat::Lum"], tryHarder, format,
                      maxSymbols, engine)

\* readBarcodesFromPixmap, lines 94-98.
readBarcodesFromPixmap(t, tryHarder, format, maxSymbols, engine) ==
    readBarcodes(t, [format |-> "ImageFormat::RGBA"], tryHarder, format,
                 maxSymbols, engine)

\* Variant: an empty first answer is retried with tryHarder on.
readBarcodeFromImage_Retries(t, buf, tryHarder, format, engine) ==
    LET many == readBarcodesFromImage(t, buf, tryHarder, format, 1, engine)
        again == readBarcodesFromImage(many.tls, buf, TRUE, format, 1, engine)
    IN IF many.results = <<>> \/ many.results[1].error # ""
       THEN [again EXCEPT !.results = <<FirstOrDefault(again.results)>>,
                          !.engineLog = many.engineLog \o again.engineLog]
       ELSE [many EXCEPT !.results = <<FirstOrDefault(many.results)>>]

\* readBarcodeFromImage, lines 87-91.
readBarcodeFromImage(t, buf, tryHarder, format, engine) ==
    LET many == readBarcodesFromImage(t, buf, tryHarder, format, 1, engine)
    IN [many EXCEPT !.results = <<FirstOrDefault(many.results)>>]

\* Variant: a first element carrying an error is replaced by the default record.
readBarcodeFromPixmap_DropsError(t, tryHarder, format, engine) ==
    LET many == readBarcodesFromPixmap(t, tryHarder, format, 1, engine)
        first == FirstOrDefault(many.results)
    IN [many EXCEPT !.results = <<IF first.error # "" THEN DefaultResult ELSE first>>]

\* readBarcodeFromPixmap, lines 101-105.
readBarcodeFromPixmap(t, tryHarder, format, engine) ==
    LET many == readBarcodesFromPixmap(t, tryHarder, format, 1, engine)
    IN [many EXCEPT !.results = <<FirstOrDefault(many.results)>>]

\* ------------------------------------------------------- state machine
\* A pixmap call has no compressed buffer; its call record carries this one.
NoBuffer == [bufferLength |-> 0, decodable |-> FALSE]

CallRecord(fn, buf, tryHarder, format, maxSymbols, engine) ==
    [fn |-> fn, buf |-> buf, tryHarder |-> tryHarder, format |-> format,
     maxSymbols |-> maxSymbols, engine |-> engine]

\* ---- the cases of a call, read off its arguments and the collaborators
Called(c) == c.fn # "none"
IsMany(c) == c.fn \in {"readBarcodesFromImage", "readBarcodesFromPixmap"}
IsOne(c) == c.fn \in {"readBarcodeFromImage", "readBarcodeFromPixmap"}
FromImage(c) == c.fn \in {"readBarcodesFromImage", "readBarcodeFromImage"}

\* The compressed bytes are empty or no image: ImageDecodeError.
ImageUnreadable(c) == FromImage(c) /\ (c.buf.bufferLength = 0 \/ ~c.buf.decodable)
\* Some name of the filter is no format name: InvalidFormatError.
FilterInvalid(c) == \E i \in 1..Len(c.format) : c.format[i] \notin {"QRCode", "EAN-13"}
\* The call gets as far as the engine.
ReachesEngine(c) == Called(c) /\ ~ImageUnreadable(c) /\ ~FilterInvalid(c)
EngineThrows(c) == ReachesEngine(c) /\ c.engine.kind # "ok"
WholeRequestFailure(c) ==
    Called(c) /\ (ImageUnreadable(c) \/ FilterInvalid(c) \/ EngineThrows(c))

Init ==
    /\ tls = [Uint8Array |-> "uninitialized"]
    /\ inits = 0
    /\ call = CallRecord("none", NoBuffer, FALSE, <<>>, 1, [kind |-> "ok", what |-> "", found |-> <<>>])
    /\ ret = <<>>
    /\ engineLog = <<>>
    /\ escaped = FALSE
    /\ failedBefore = FALSE

\* The entry point returned out: the host sees the bound values.
Return(c, out) ==
    /\ call' = c
    /\ ret' = WireSeq(out.results)
    /\ tls' = out.tls
    /\ inits' = Min(inits + out.inits, MaxInits)
    /\ engineLog' = out.engineLog
    /\ escaped' = out.escaped
    /\ failedBefore' = (failedBefore \/ WholeRequestFailure(call))

CallReadBarcodesFromImage ==
    \E buf \in Buffers, tryHarder \in BOOLEAN, format \in FormatFilters,
       maxSymbols \in 1..MaxSymbolsArg :
      \E engine \in EngineBehavioursFor(buf) :
        Return(CallRecord("readBarcodesFromImage", buf, tryHarder, format, maxSymbols, engine),
               readBarcodesFromImage(tls, buf, tryHarder, format, maxSymbols, engine))

CallReadBarcodeFromImage ==
    \E buf \in Buffers, tryHarder \in BOOLEAN, format \in FormatFilters :
      \E engine \in EngineBehavioursFor(buf) :
        Return(CallRecord("readBarcodeFromImage", buf, tryHarder, format, 1, engine),
               readBarcodeFromImage(tls, buf, tryHarder, format, engine))

CallReadBarcodesFromPixmap ==
    \E tryHarder \in BOOLEAN, format \in FormatFilters,
       maxSymbols \in 1..MaxSymbolsArg, engine \in EngineBehaviours :
        Return(CallRecord("readBarcodesFromPixmap", NoBuffer, tryHarder, format, maxSymbols, engine),
               readBarcodesFromPixmap(tls, tryHarder, format, maxSymbols, engine))

CallReadBarcodeFromPixmap ==
    \E tryHarder \in BOOLEAN, format \in FormatFilters, engine \in EngineBehaviours :
        Return(CallRecord("readBarcodeFromPixmap", NoBuffer, tryHarder, format, 1, engine),
               readBarcodeFromPixmap(tls, tryHarder, format, engine))

Next ==
    \/ CallReadBarcodesFromImage
    \/ CallReadBarcodeFromImage
    \/ CallReadBarcodesFromPixmap
    \/ CallReadBarcodeFromPixmap

Spec == Init /\ [][Next]_vars

\* ------------------------------------------------------------- claims
\* A host-side record all of whose fields but error are empty/zero.
OtherFieldsEmpty(r) ==
    /\ r.format = ""
    /\ r.text = ""
    /\ r.bytes = UndefinedVal
    /\ r.position = [topLeft |-> Point(0, 0), topRight |-> Point(0, 0),
                     bottomRight |-> Point(0, 0), bottomLeft |-> Point(0, 0)]
    /\ r.symbologyIdentifier = ""

\* The host-side zero record with empty error.
ZeroWire ==
    [format |-> "", text |-> "", bytes |-> UndefinedVal, error |-> "",
     position |-> [topLeft |-> Point(0, 0), topRight |-> Point(0, 0),
                   bottomRight |-> Point(0, 0), bottomLeft |-> Point(0, 0)],
     symbologyIdentifier |-> ""]

\* The format enumerator f is requested by the filter of call c.
Requested(c, f) ==
    c.format = <<>> \/ \E i \in 1..Len(c.format) : FormatTable[c.format[i]] = f

\* C1: a compressed-image call whose buffer is empty or undecodable returns
\* exactly one record with non-empty error and every other field empty/zero,
\* and the engine is not invoked in that call.
C1_ImageDecodeError ==
    ImageUnreadable(call) =>
        /\ Len(ret) = 1
        /\ ret[1].error # ""
        /\ OtherFieldsEmpty(ret[1])
        /\ engineLog = <<>>

C1_Witness ==
    /\ call.fn = "readBarcodeFromImage"
    /\ call.buf.bufferLength = 0
    /\ call.engine.kind = "ok"
    /\ call.engine.found = <<SymA>>
    /\ Len(ret) = 1
    /\ ret[1].error = "Error loading image"

\* C2: with a readable image, a valid filter and an engine that returns
\* normally with zero symbols, decodeMany returns the empty sequence, for
\* every tryHarder and maxSymbols.
C2_NothingFoundIsEmpty ==
    ( /\ IsMany(call)
      /\ ReachesEngine(call)
      /\ call.engine.kind = "ok"
      /\ \A i \in 1..Len(call.engine.found) : ~Requested(call, call.engine.found[i].format) )
    => ret = <<>>

C2_Witness ==
    /\ call.fn = "readBarcodesFromPixmap"
    /\ call.tryHarder
    /\ call.maxSymbols = MaxSymbolsArg
    /\ call.format = <<"QRCode">>
    /\ call.engine.kind = "ok"
    /\ call.engine.found = <<SymB>>
    /\ ret = <<>>

\* The vector decodeMany returns for the arguments and collaborators of c
\* with maxSymbols = 1, as the host receives it.
ManyWithOne(c) ==
    LET fresh == [Uint8Array |-> "uninitialized"]
    IN IF FromImage(c)
       THEN WireSeq(readBarcodesFromImage(fresh, c.buf, c.tryHarder, c.format, 1, c.engine).results)
       ELSE WireSeq(readBarcodesFromPixmap(fresh, c.tryHarder, c.format, 1, c.engine).results)

\* C3: decodeOne returns the first element of decodeMany(..., maxSymbols=1)
\* on the same input, and the zero record with empty error when that
\* sequence is empty; a failure record of decodeMany is returned unchanged.
C3_OneIsFirstOfMany ==
    IsOne(call) =>
        LET many == ManyWithOne(call)
        IN /\ Len(ret) = 1
           /\ many = <<>> => ret[1] = ZeroWire
           /\ many # <<>> => ret[1] = many[1]
           /\ WholeRequestFailure(call) => (many # <<>> /\ ret[1] = many[1])

C3_Witness ==
    /\ call.fn = "readBarcodeFromPixmap"
    /\ call.engine.kind = "std::exception"
    /\ call.engine.what = "out of memory"
    /\ ~FilterInvalid(call)
    /\ ret = <<[ZeroWire EXCEPT !.error = "out of memory"]>>

\* C4 as stated: every whole-request failure, a typed engine failure with
\* any message included, is one record with non-empty error and never an
\* exception, and a returned sequence is a whole-request failure exactly
\* when it is one record with non-empty error.
C4_AsStated ==
    Called(call) =>
        /\ ~escaped
        /\ WholeRequestFailure(call) => (Len(ret) = 1 /\ ret[1].error # "")
        /\ (IsMany(call) /\ Len(ret) = 1 /\ ret[1].error # "") => WholeRequestFailure(call)

\* The engine threw an exception derived from std::exception whose what() is empty.
EmptyTypedMessage(c) ==
    EngineThrows(c) /\ c.engine.kind = "std::exception" /\ c.engine.what = ""

\* C4, amended: every whole-request failure is returned as data, one record
\* with all fields but error empty, never as an exception and never as the
\* empty sequence; its error is non-empty unless the engine's typed failure
\* carried the empty message; and a one-record sequence with non-empty
\* error is a whole-request failure or the transcription of one symbol that
\* carries a per-symbol error (its format is then non-empty).
C4_FailureIsData ==
    Called(call) =>
        /\ ~escaped
        /\ WholeRequestFailure(call) =>
              /\ Len(ret) = 1
              /\ OtherFieldsEmpty(ret[1])
              /\ (ret[1].error = "") <=> EmptyTypedMessage(call)
        /\ (IsMany(call) /\ Len(ret) = 1 /\ ret[1].error # "") =>
              \/ WholeRequestFailure(call)
              \/ /\ call.engine.kind = "ok"
                 /\ ret[1].format # ""
                 /\ \E i \in 1..Len(call.engine.found) :
                        /\ call.engine.found[i].error # "Error::None"
                        /\ FormatTable[ret[1].format] = call.engine.found[i].format

C4_Witness ==
    /\ call.fn = "readBarcodesFromPixmap"
    /\ call.format = <<"QRCode">>
    /\ call.engine.kind = "other"
    /\ ~escaped
    /\ Len(ret) = 1
    /\ ret[1].error = "Unknown error"

\* C5: a typed engine failure with message m gives exactly one record with
\* error = m and all other fields empty; an unknown failure gives exactly
\* one record with error = "Unknown error"; no symbol of the engine appears.
C5_EngineFailureRecord ==
    EngineThrows(call) =>
        /\ Len(ret) = 1
        /\ OtherFieldsEmpty(ret[1])
        /\ call.engine.kind = "std::exception" => ret[1].error = call.engine.what
        /\ call.engine.kind = "other" => ret[1].error = "Unknown error"

C5_Witness ==
    /\ call.fn = "readBarcodesFromImage"
    /\ call.buf.decodable
    /\ call.engine.kind = "std::exception"
    /\ call.engine.what = "out of memory"
    /\ call.engine.found = <<SymA>>
    /\ Len(engineLog) = 1
    /\ Len(ret) = 1
    /\ ret[1].error = "out of memory"

\* C6: a filter with an unrecognized name fails the whole call with one
\* record with non-empty error and the engine is never invoked; the empty
\* filter is accepted and means all formats.
C6_FilterParsedFirst ==
    /\ (Called(call) /\ FilterInvalid(call)) =>
          /\ Len(ret) = 1
          /\ ret[1].error # ""
          /\ engineLog = <<>>
    /\ (Called(call) /\ call.format = <<>> /\ ~ImageUnreadable(call)) =>
          /\ Len(engineLog) = 1
          /\ engineLog[1].opts.formats = {}
          /\ (IsMany(call) /\ call.engine.kind = "ok") =>
                Len(ret) = Min(Len(call.engine.found), call.maxSymbols)

C6_Witness ==
    /\ call.fn = "readBarcodesFromPixmap"
    /\ call.format = <<"EAN-13", "NotARealFormat">>
    /\ call.engine.kind = "ok"
    /\ call.engine.found = <<SymB, SymA>>
    /\ engineLog = <<>>
    /\ Len(ret) = 1
    /\ ret[1].error # ""

\* C7: the options handed to the engine have tryHarder, tryRotate, tryInvert
\* and tryDownscale all equal to the caller's tryHarder, and
\* maxNumberOfSymbols equal to the caller's maxSymbols (1 for decodeOne).
C7_OptionsFromTryHarder ==
    \A i \in 1..Len(engineLog) :
        LET o == engineLog[i].opts
        IN /\ o.tryHarder = call.tryHarder
           /\ o.tryRotate = call.tryHarder
           /\ o.tryInvert = call.tryHarder
           /\ o.tryDownscale = call.tryHarder
           /\ IsMany(call) => o.maxNumberOfSymbols = call.maxSymbols
           /\ IsOne(call) => o.maxNumberOfSymbols = 1

C7_Witness ==
    /\ call.fn = "readBarcodesFromImage"
    /\ call.tryHarder
    /\ call.maxSymbols = MaxSymbolsArg
    /\ call.engine.kind = "ok"
    /\ call.engine.found = <<>>
    /\ Len(engineLog) = 1
    /\ engineLog[1].opts.tryInvert
    /\ engineLog[1].opts.maxNumberOfSymbols = MaxSymbolsArg

\* C8: when the engine returns symbols s1..sk, decodeMany returns k records
\* in that order, record i transcribing si field by field; a symbol with a
\* per-symbol error is transcribed like any other.
C8_FieldByField ==
    (IsMany(call) /\ ReachesEngine(call) /\ call.engine.kind = "ok") =>
        /\ Len(engineLog) = 1
        /\ LET s == ReadBarcodes(engineLog[1].iv, engineLog[1].opts, call.engine).barcodes
           IN /\ Len(ret) = Len(s)
              /\ \A i \in 1..Len(s) :
                    /\ ret[i].format \in DOMAIN FormatTable
                    /\ FormatTable[ret[i].format] = s[i].format
                    /\ ret[i].text = s[i].text
                    /\ ret[i].bytes.type = "Uint8Array"
                    /\ ret[i].bytes.data = s[i].bytes
                    /\ ret[i].position.topLeft = s[i].position[1]
                    /\ ret[i].position.topRight = s[i].position[2]
                    /\ ret[i].position.bottomRight = s[i].position[3]
                    /\ ret[i].position.bottomLeft = s[i].position[4]
                    /\ ret[i].symbologyIdentifier = s[i].symbologyIdentifier
                    /\ (ret[i].error = "") <=> (s[i].error = "Error::None")
                    /\ s[i].error = "Error::Checksum" => ret[i].error = "ChecksumError"

C8_Witness ==
    /\ call.fn = "readBarcodesFromPixmap"
    /\ call.engine.kind = "ok"
    /\ call.engine.found = <<SymB, SymA>>
    /\ Len(ret) = 2
    /\ ret[1].error = "ChecksumError"
    /\ ret[2].error = ""
    /\ ret[2].bytes.data = <<1, 2, 3>>
    /\ ret[2].position.bottomLeft = Point(2, 8)

\* C9: in every call the engine is invoked at most once, and exactly once
\* whenever the pixel source is obtained and the filter parses, also in the
\* decodeOne variants and in the calls that end in an engine failure.
C9_EngineOncePerCall ==
    /\ Len(engineLog) <= 1
    /\ ReachesEngine(call) => Len(engineLog) = 1

C9_Witness ==
    /\ call.fn = "readBarcodeFromImage"
    /\ call.buf.decodable
    /\ call.format = <<>>
    /\ call.engine.kind = "other"
    /\ Len(engineLog) = 1

\* What call c gives back when it is the first call of the thread.
FirstCallOutcome(c) ==
    LET fresh == [Uint8Array |-> "uninitialized"]
    IN CASE c.fn = "readBarcodesFromImage" ->
              readBarcodesFromImage(fresh, c.buf, c.tryHarder, c.format, c.maxSymbols, c.engine)
         [] c.fn = "readBarcodeFromImage" ->
              readBarcodeFromImage(fresh, c.buf, c.tryHarder, c.format, c.engine)
         [] c.fn = "readBarcodesFromPixmap" ->
              readBarcodesFromPixmap(fresh, c.tryHarder, c.format, c.maxSymbols, c.engine)
         [] c.fn = "readBarcodeFromPixmap" ->
              readBarcodeFromPixmap(fresh, c.tryHarder, c.format, c.engine)

\* C10: whatever calls came before, failed ones included, a call returns
\* what it would return as the first call with the same arguments and the
\* same engine behaviour; the cached Uint8Array handle is written at most
\* once, by its initialisation.
C10_CallsAreIsolated ==
    /\ inits <= 1
    /\ (inits = 0) <=> (tls.Uint8Array = "uninitialized")
    /\ Called(call) =>
          LET first == FirstCallOutcome(call)
          IN /\ ret = WireSeq(first.results)
             /\ engineLog = first.engineLog
             /\ escaped = first.escaped

C10_Witness ==
    /\ failedBefore
    /\ inits = 1
    /\ tls.Uint8Array = "global:Uint8Array"
    /\ call.fn = "readBarcodesFromImage"
    /\ call.engine.kind = "ok"
    /\ Len(ret) = 2

====
